---- MODULE Spec2Model ----
(***************************************************************************)
(* The Flask ToDo service of src/app.py: the module-level store (the dict  *)
(* todos and the counter next_id) and one action per route handler.        *)
(*                                                                         *)
(* Spec is the service handling one request at a time: a handler runs as   *)
(* one step from the idle server to a state that holds the request and its *)
(* response, and Finish hands the response to the client.                  *)
(*                                                                         *)
(* SpecConc is the threaded server running create_todo in several request  *)
(* threads at once: a thread may be switched between any two accesses to   *)
(* the globals, so each access is a step of its own.                       *)
(*                                                                         *)
(* SpecRace is the threaded server running get_todo, update_todo and       *)
(* delete_todo in several request threads at once.                         *)
(***************************************************************************)
EXTENDS Integers, Sequences, FiniteSets, TLC

VARIABLES
    todos,      \* the dict todos: a sequence of [key, val] entries in insertion order
    next_id,    \* the module global next_id
    req,        \* the request being answered (NoReq when the server is idle)
    resp,       \* its response (NoResp when the server is idle)
    created,    \* history: the ids returned by the creates answered 201, in order
    held,       \* history: every key the dict has ever held
    deleted,    \* history: the ids whose delete was answered 200
    threads     \* SpecConc: each request thread's position and locals

vars == <<todos, next_id, req, resp, created, held, deleted, threads>>
hist == <<created, held, deleted>>

(***************************************************************************)
(* Bounds of the model.                                                    *)
(***************************************************************************)
\* create is explored while next_id < MaxNextId; request ids range over 1..MaxNextId
MaxNextId == 5
\* the request threads of SpecConc
NumThreads == 2

(***************************************************************************)
(* JSON scalars, as tagged values (v is the value's text).                 *)
(***************************************************************************)
JStr(s) == [kind |-> "str", v |-> s]
JTrue == [kind |-> "bool", v |-> "true"]
JFalse == [kind |-> "bool", v |-> "false"]
JNull == [kind |-> "null", v |-> ""]

\* Python's truth value of a JSON scalar (the test of `if todo['completed']`)
Truthy(x) ==
    CASE x.kind = "str" -> x.v # ""
      [] x.kind = "bool" -> x.v = "true"
      [] OTHER -> FALSE

\* the titles and completed values requests carry
TitleValues == {JStr("Buy milk"), JStr("")}
CompletedValues == {JTrue, JFalse}

(***************************************************************************)
(* datetime.now().isoformat(): the clock reading is an input; isoformat    *)
(* renders it as text.                                                     *)
(***************************************************************************)
ImportTime == "import"
Times == {"later"}
isoformat(t) == IF t = "import" THEN "2024-01-01T00:00:00" ELSE "2024-01-01T00:00:01"

(***************************************************************************)
(* Todo records and the dict that holds them.                              *)
(***************************************************************************)
Todo(i, t, c, at) == [id |-> i, title |-> t, completed |-> c, created_at |-> at]
NoTodo == Todo(0, JNull, JNull, "")

Entry(k, v) == [key |-> k, val |-> v]

\* d.keys()
Keys(d) == {d[i].key : i \in 1..Len(d)}
\* k in d
Has(d, k) == k \in Keys(d)
\* the id checked against the number of records instead of the keys
NotIn_len(d, k) == k > Len(d)
\* k not in d
NotIn(d, k) == k \notin Keys(d)
\* d[k] and d.pop(k) raise KeyError when k is no key of d
KeyError(d, k) == k \notin Keys(d)
\* d[k]
Get(d, k) == IF Has(d, k) THEN d[CHOOSE i \in 1..Len(d) : d[i].key = k].val ELSE NoTodo
\* a present key deleted and inserted again: it moves to the end
SetItem_move(d, k, v) == Append(SelectSeq(d, LAMBDA e : e.key # k), Entry(k, v))
\* the record appended whether or not the key is present
SetItem_append(d, k, v) == Append(d, Entry(k, v))
\* d[k] = v: a present key keeps its place, a new key goes last
SetItem(d, k, v) ==
    IF Has(d, k)
    THEN [i \in 1..Len(d) |-> IF d[i].key = k THEN Entry(k, v) ELSE d[i]]
    ELSE Append(d, Entry(k, v))
\* d.popitem(): the last entry goes, whatever k is
Pop_popitem(d, k) == SubSeq(d, 1, Len(d) - 1)
\* d.pop(k) leaves the other entries in their order
Pop(d, k) == SelectSeq(d, LAMBDA e : e.key # k)
\* list(d.values())
Values(d) == [i \in 1..Len(d) |-> d[i].val]

(***************************************************************************)
(* Request bodies, as request.get_json() sees them.                        *)
(*   malformed  the body does not parse: get_json aborts with 400          *)
(*   none       get_json returns None (a null body)                        *)
(*   num        a JSON number, n                                           *)
(*   list       a JSON array; keys are its members ("x": any other member) *)
(*   obj        a JSON object with the keys `keys`                         *)
(***************************************************************************)
Body(k, ks, t, c, n) == [kind |-> k, keys |-> ks, title |-> t, completed |-> c, n |-> n]
NoBody == Body("none", {}, JNull, JNull, 0)
Malformed == Body("malformed", {}, JNull, JNull, 0)
Obj(ks, t, c) ==
    Body("obj", ks, IF "title" \in ks THEN t ELSE JNull,
         IF "completed" \in ks THEN c ELSE JNull, 0)

Bodies ==
    {Malformed, NoBody}
    \cup {Body("num", {}, JNull, JNull, n) : n \in {0, 1}}
    \cup {Body("list", ks, JNull, JNull, 0) : ks \in {{}, {"x"}, {"title"}, {"completed"}}}
    \cup {Obj(ks, t, c) : ks \in SUBSET {"title", "completed"},
                          t \in TitleValues, c \in CompletedValues}
    \cup {Obj({"x"}, JNull, JNull)}

\* Python's truth value of the parsed body (`not data`)
BodyTruthy(data) ==
    CASE data.kind = "none" -> FALSE
      [] data.kind = "num" -> data.n # 0
      [] OTHER -> data.keys # {}
\* `key in data` raises TypeError on None and on a number
InRaises(data) == data.kind \in {"none", "num"}
\* `key in data`
In(key, data) == key \in data.keys
\* data[key] with a text key raises TypeError on a list
SubscriptRaises(data) == data.kind # "obj"
\* data[key], for a key of an object
Subscript(data, key) == IF key = "title" THEN data.title ELSE data.completed

(***************************************************************************)
(* Requests and responses.                                                 *)
(***************************************************************************)
Req(op, id, body) == [op |-> op, id |-> id, body |-> body]
NoReq == Req("none", 0, NoBody)

Stats(t, c, p, r) == [total |-> t, completed |-> c, pending |-> p, completion_rate |-> r]
NoStats == Stats(0, 0, 0, <<0, 1>>)

Resp(st, kind, err, todo, list, stats) ==
    [status |-> st, kind |-> kind, error |-> err, todo |-> todo, list |-> list,
     stats |-> stats]
NoResp == Resp(0, "none", "", NoTodo, <<>>, NoStats)
\* jsonify({'error': msg}), status
JsonError(st, msg) == Resp(st, "error", msg, NoTodo, <<>>, NoStats)
\* jsonify(todo), status
JsonTodo(st, todo) == Resp(st, "todo", "", todo, <<>>, NoStats)

\* the handler registered for 404 (no route matches)
not_found == JsonError(404, "Not found")
\* the 500 handler as a copy of the 404 handler
server_error_copied == JsonError(404, "Not found")
\* the handler registered for 500 (a handler raised)
server_error == JsonError(500, "Internal server error")
\* get_json's abort on a body that does not parse: werkzeug's BadRequest page,
\* for which the application registers no handler
BadRequest == Resp(400, "html", "", NoTodo, <<>>, NoStats)

Idle == req = NoReq /\ resp = NoResp

\* a request thread: its position in create_todo, the parsed body `data`, the
\* local `todo`, the values of next_id it has loaded (`key`, `tmp`), its response
Thread(pc, data, todo, key, tmp, r) ==
    [pc |-> pc, data |-> data, todo |-> todo, key |-> key, tmp |-> tmp, resp |-> r]
Threads == 1..NumThreads

(***************************************************************************)
(* Init: the module as imported.                                           *)
(***************************************************************************)
Init ==
    /\ todos = << Entry(1, Todo(1, JStr("Learn GitHub Actions"), JFalse, isoformat(ImportTime))),
                  Entry(2, Todo(2, JStr("Build CI/CD pipeline"), JFalse, isoformat(ImportTime))) >>
    /\ next_id = 3
    /\ req = NoReq
    /\ resp = NoResp
    /\ created = <<>>
    /\ held = {1, 2}
    /\ deleted = {}
    /\ threads = [t \in Threads |-> Thread("idle", NoBody, NoTodo, 0, 0, NoResp)]

(***************************************************************************)
(* Handlers.                                                               *)
(***************************************************************************)
\* the increment left out
Increment_stuck(n) == n
\* next_id += 1
Increment(n) == n + 1

\* the id taken from the number of records (len(todos) + 1)
NewTodo_len(n, data, now) ==
    Todo(Len(todos) + 1, Subscript(data, "title"), JFalse, isoformat(now))
\* the id taken one past the counter
NewTodo_off_by_one(n, data, now) ==
    Todo(n + 1, Subscript(data, "title"), JFalse, isoformat(now))
\* the record create_todo builds
NewTodo(n, data, now) == Todo(n, Subscript(data, "title"), JFalse, isoformat(now))

\* POST /api/todos
create_todo(data, now) ==
    /\ Idle
    /\ req' = Req("create", 0, data)
    /\ UNCHANGED threads
    /\ IF data.kind = "malformed"
       THEN /\ resp' = BadRequest
            /\ UNCHANGED <<todos, next_id, hist>>
       ELSE IF ~BodyTruthy(data)
       THEN /\ resp' = JsonError(400, "Title is required")
            /\ UNCHANGED <<todos, next_id, hist>>
       ELSE IF InRaises(data)
       THEN /\ resp' = server_error
            /\ UNCHANGED <<todos, next_id, hist>>
       ELSE IF ~In("title", data)
       THEN /\ resp' = JsonError(400, "Title is required")
            /\ UNCHANGED <<todos, next_id, hist>>
       ELSE IF SubscriptRaises(data)
       THEN /\ resp' = server_error
            /\ UNCHANGED <<todos, next_id, hist>>
       ELSE /\ next_id < MaxNextId
            /\ todos' = SetItem(todos, next_id, NewTodo(next_id, data, now))
            /\ next_id' = Increment(next_id)
            /\ resp' = JsonTodo(201, NewTodo(next_id, data, now))
            /\ created' = Append(created, resp'.todo.id)
            /\ held' = held \cup Keys(todos')
            /\ UNCHANGED deleted

\* what get_todo answers from the dict d
get_todo_response(d, todo_id) ==
    IF NotIn(d, todo_id) THEN JsonError(404, "Todo not found")
    ELSE IF KeyError(d, todo_id) THEN server_error
    ELSE JsonTodo(200, Get(d, todo_id))

\* the record taken out of the dict to answer (todos.pop for todos[...])
get_todo_pops(todo_id) ==
    /\ Idle
    /\ req' = Req("get", todo_id, NoBody)
    /\ UNCHANGED threads
    /\ resp' = get_todo_response(todos, todo_id)
    /\ todos' = Pop(todos, todo_id)
    /\ UNCHANGED <<next_id, hist>>

\* GET /api/todos/<int:todo_id>
get_todo(todo_id) ==
    /\ Idle
    /\ req' = Req("get", todo_id, NoBody)
    /\ UNCHANGED threads
    /\ resp' = get_todo_response(todos, todo_id)
    /\ UNCHANGED <<todos, next_id, hist>>

\* todos[todo_id][field] = value
SetField(d, todo_id, field, value) ==
    SetItem(d, todo_id, [Get(d, todo_id) EXCEPT ![field] = value])

\* the title assigned whether or not the body has one (data.get('title'))
AfterTitle_always(d, todo_id, data) ==
    SetField(d, todo_id, "title", IF In("title", data) THEN Subscript(data, "title") ELSE JNull)
\* the dict after `if 'title' in data: todos[todo_id]['title'] = data['title']`
AfterTitle(d, todo_id, data) ==
    IF In("title", data) THEN SetField(d, todo_id, "title", Subscript(data, "title")) ELSE d

\* the dict after `if 'completed' in data: todos[todo_id]['completed'] = data['completed']`
AfterCompleted(d, todo_id, data) ==
    IF In("completed", data)
    THEN SetField(d, todo_id, "completed", Subscript(data, "completed"))
    ELSE d

\* PUT /api/todos/<int:todo_id>
update_todo(todo_id, data) ==
    /\ Idle
    /\ req' = Req("update", todo_id, data)
    /\ UNCHANGED threads
    /\ UNCHANGED <<next_id, hist>>
    /\ IF NotIn(todos, todo_id)
       THEN /\ resp' = JsonError(404, "Todo not found")
            /\ UNCHANGED todos
       ELSE IF data.kind = "malformed"
       THEN /\ resp' = BadRequest
            /\ UNCHANGED todos
       ELSE IF InRaises(data) \/ KeyError(todos, todo_id)
       THEN /\ resp' = server_error
            /\ UNCHANGED todos
       ELSE IF In("title", data) /\ SubscriptRaises(data)
       THEN /\ resp' = server_error
            /\ UNCHANGED todos
       ELSE IF In("completed", data) /\ SubscriptRaises(data)
       THEN /\ resp' = server_error
            /\ todos' = AfterTitle(todos, todo_id, data)
       ELSE /\ todos' = AfterCompleted(AfterTitle(todos, todo_id, data), todo_id, data)
            /\ resp' = JsonTodo(200, Get(todos', todo_id))

\* DELETE /api/todos/<int:todo_id>
delete_todo(todo_id) ==
    /\ Idle
    /\ req' = Req("delete", todo_id, NoBody)
    /\ UNCHANGED threads
    /\ UNCHANGED <<next_id, created, held>>
    /\ IF NotIn(todos, todo_id)
       THEN /\ resp' = JsonError(404, "Todo not found")
            /\ UNCHANGED <<todos, deleted>>
       ELSE IF KeyError(todos, todo_id)
       THEN /\ resp' = server_error
            /\ UNCHANGED <<todos, deleted>>
       ELSE /\ todos' = Pop(todos, todo_id)
            /\ resp' = JsonTodo(200, Get(todos, todo_id))
            /\ deleted' = deleted \cup {todo_id}

\* GET /api/todos
get_todos ==
    /\ Idle
    /\ req' = Req("list", 0, NoBody)
    /\ UNCHANGED threads
    /\ resp' = Resp(200, "list", "", NoTodo, Values(todos), NoStats)
    /\ UNCHANGED <<todos, next_id, hist>>

\* sum(1 for todo in todos.values() if todo['completed'])
RECURSIVE CountCompleted(_)
CountCompleted(values) ==
    IF values = <<>> THEN 0
    ELSE (IF Truthy(Head(values).completed) THEN 1 ELSE 0) + CountCompleted(Tail(values))

\* the division without its guard
CompletionRate_unguarded(completed, total) == <<completed * 100, total>>
\* (completed / total * 100) if total > 0 else 0, as the fraction <<numerator, denominator>>
\* the float approximates
CompletionRate(completed, total) ==
    IF total > 0 THEN <<completed * 100, total>> ELSE <<0, 1>>

\* the four numbers get_stats reports
StatsOf(d) ==
    LET total == Len(d)
        completed == CountCompleted(Values(d))
        pending == total - completed
    IN Stats(total, completed, pending, CompletionRate(completed, total))

\* GET /api/todos/stats
get_stats ==
    /\ Idle
    /\ req' = Req("stats", 0, NoBody)
    /\ UNCHANGED threads
    /\ resp' = Resp(200, "stats", "", NoTodo, <<>>, StatsOf(todos))
    /\ UNCHANGED <<todos, next_id, hist>>

\* GET /health
health ==
    /\ Idle
    /\ req' = Req("health", 0, NoBody)
    /\ UNCHANGED threads
    /\ resp' = Resp(200, "health", "", NoTodo, <<>>, NoStats)
    /\ UNCHANGED <<todos, next_id, hist>>

\* GET /
index ==
    /\ Idle
    /\ req' = Req("index", 0, NoBody)
    /\ UNCHANGED threads
    /\ resp' = Resp(200, "html", "", NoTodo, Values(todos), NoStats)
    /\ UNCHANGED <<todos, next_id, hist>>

\* a request no route matches
unmatched ==
    /\ Idle
    /\ req' = Req("unmatched", 0, NoBody)
    /\ UNCHANGED threads
    /\ resp' = not_found
    /\ UNCHANGED <<todos, next_id, hist>>

\* the response has been sent: the server is idle again
Finish ==
    /\ ~Idle
    /\ req' = NoReq
    /\ UNCHANGED threads
    /\ resp' = NoResp
    /\ UNCHANGED <<todos, next_id, hist>>

Next ==
    \/ \E data \in Bodies, now \in Times : create_todo(data, now)
    \/ \E todo_id \in 1..MaxNextId : get_todo(todo_id)
    \/ \E todo_id \in 1..MaxNextId, data \in Bodies : update_todo(todo_id, data)
    \/ \E todo_id \in 1..MaxNextId : delete_todo(todo_id)
    \/ get_todos
    \/ get_stats
    \/ health
    \/ index
    \/ unmatched
    \/ Finish

Spec == Init /\ [][Next]_vars

(***************************************************************************)
(* create_todo in concurrent request threads, one step per access to the   *)
(* globals todos and next_id.                                              *)
(***************************************************************************)
\* the bodies the concurrent creates carry
ConcBodies == {Obj({"title"}, t, JNull) : t \in TitleValues} \cup {Obj({}, JNull, JNull)}

\* a thread ends its request with the response r
Done(t, r) == threads' = [threads EXCEPT ![t].pc = "done", ![t].resp = r]

\* data = request.get_json() and the check of the title
t_receive(t, data) ==
    /\ threads[t].pc = "idle"
    /\ UNCHANGED <<todos, next_id, req, resp, hist>>
    /\ IF data.kind = "malformed" THEN Done(t, BadRequest)
       ELSE IF ~BodyTruthy(data) THEN Done(t, JsonError(400, "Title is required"))
       ELSE IF InRaises(data) THEN Done(t, server_error)
       ELSE IF ~In("title", data) THEN Done(t, JsonError(400, "Title is required"))
       ELSE threads' = [threads EXCEPT ![t].pc = "build", ![t].data = data]

\* todo = {'id': next_id, 'title': data['title'], ...}
t_build(t, now) ==
    /\ threads[t].pc = "build"
    /\ UNCHANGED <<todos, next_id, req, resp, hist>>
    /\ IF SubscriptRaises(threads[t].data) THEN Done(t, server_error)
       ELSE threads' = [threads EXCEPT ![t].pc = "key",
                                       ![t].todo = NewTodo(next_id, threads[t].data, now)]

\* todos[next_id] = todo: next_id is loaded
t_key(t) ==
    /\ threads[t].pc = "key"
    /\ threads' = [threads EXCEPT ![t].pc = "store", ![t].key = next_id]
    /\ UNCHANGED <<todos, next_id, req, resp, hist>>

\* todos[next_id] = todo: the record is stored under the loaded key
t_store(t) ==
    /\ threads[t].pc = "store"
    /\ todos' = SetItem(todos, threads[t].key, threads[t].todo)
    /\ held' = held \cup Keys(todos')
    /\ threads' = [threads EXCEPT ![t].pc = "load"]
    /\ UNCHANGED <<next_id, req, resp, created, deleted>>

\* next_id += 1: next_id is loaded
t_load(t) ==
    /\ threads[t].pc = "load"
    /\ threads' = [threads EXCEPT ![t].pc = "add", ![t].tmp = next_id]
    /\ UNCHANGED <<todos, next_id, req, resp, hist>>

\* next_id += 1: the sum is stored
t_add(t) ==
    /\ threads[t].pc = "add"
    /\ next_id' = Increment(threads[t].tmp)
    /\ threads' = [threads EXCEPT ![t].pc = "return"]
    /\ UNCHANGED <<todos, req, resp, hist>>

\* return jsonify(todo), 201
t_return(t) ==
    /\ threads[t].pc = "return"
    /\ Done(t, JsonTodo(201, threads[t].todo))
    /\ created' = Append(created, threads[t].todo.id)
    /\ UNCHANGED <<todos, next_id, req, resp, held, deleted>>

NextConc ==
    \/ \E t \in Threads, data \in ConcBodies : t_receive(t, data)
    \/ \E t \in Threads, now \in Times : t_build(t, now)
    \/ \E t \in Threads : t_key(t)
    \/ \E t \in Threads : t_store(t)
    \/ \E t \in Threads : t_load(t)
    \/ \E t \in Threads : t_add(t)
    \/ \E t \in Threads : t_return(t)

SpecConc == Init /\ [][NextConc]_vars

(***************************************************************************)
(* SpecRace: get_todo, update_todo and delete_todo in concurrent request   *)
(* threads. Each handler first tests `todo_id not in todos` and reads or   *)
(* writes todos[todo_id] in later statements; a thread may be switched     *)
(* between them.                                                           *)
(***************************************************************************)
\* a request thread: its position, the route it runs, its todo_id, the parsed
\* body and its response
Racer(pc, op, id, data, r) == [pc |-> pc, op |-> op, id |-> id, data |-> data, resp |-> r]

\* the ids and bodies the concurrent requests carry
RaceIds == {1, 2}
RaceBodies == {Obj(ks, JStr("Buy milk"), JTrue) : ks \in SUBSET {"title", "completed"}}
RaceRequests ==
    {<<"get", NoBody>>, <<"delete", NoBody>>} \cup {<<"update", b>> : b \in RaceBodies}

InitRace ==
    /\ todos = << Entry(1, Todo(1, JStr("Learn GitHub Actions"), JFalse, isoformat(ImportTime))),
                  Entry(2, Todo(2, JStr("Build CI/CD pipeline"), JFalse, isoformat(ImportTime))) >>
    /\ next_id = 3
    /\ req = NoReq
    /\ resp = NoResp
    /\ created = <<>>
    /\ held = {1, 2}
    /\ deleted = {}
    /\ threads = [t \in Threads |-> Racer("idle", "none", 0, NoBody, NoResp)]

\* the thread moves on to pc
Goto(t, pc) == threads' = [threads EXCEPT ![t].pc = pc]

\* if todo_id not in todos: return 404
r_check(t, op, todo_id, data) ==
    /\ threads[t].pc = "idle"
    /\ UNCHANGED <<todos, next_id, req, resp, hist>>
    /\ IF NotIn(todos, todo_id)
       THEN threads' = [threads EXCEPT
                ![t] = Racer("done", op, todo_id, data, JsonError(404, "Todo not found"))]
       ELSE threads' = [threads EXCEPT
                ![t] = Racer(IF op = "get" THEN "get_read"
                             ELSE IF op = "update" THEN "upd_title" ELSE "del_pop",
                             op, todo_id, data, NoResp)]

\* get_todo: return jsonify(todos[todo_id]), 200
r_get_read(t) ==
    /\ threads[t].pc = "get_read"
    /\ UNCHANGED <<todos, next_id, req, resp, hist>>
    /\ IF KeyError(todos, threads[t].id) THEN Done(t, server_error)
       ELSE Done(t, JsonTodo(200, Get(todos, threads[t].id)))

\* update_todo: data = request.get_json(); if 'title' in data: ...
r_upd_title(t) ==
    LET data == threads[t].data
        id == threads[t].id
    IN /\ threads[t].pc = "upd_title"
       /\ UNCHANGED <<next_id, req, resp, hist>>
       /\ IF data.kind = "malformed" THEN Done(t, BadRequest) /\ UNCHANGED todos
          ELSE IF InRaises(data) THEN Done(t, server_error) /\ UNCHANGED todos
          ELSE IF ~In("title", data) THEN Goto(t, "upd_completed") /\ UNCHANGED todos
          ELSE IF SubscriptRaises(data) \/ KeyError(todos, id)
          THEN Done(t, server_error) /\ UNCHANGED todos
          ELSE Goto(t, "upd_completed") /\ todos' = AfterTitle(todos, id, data)

\* update_todo: if 'completed' in data: ...
r_upd_completed(t) ==
    LET data == threads[t].data
        id == threads[t].id
    IN /\ threads[t].pc = "upd_completed"
       /\ UNCHANGED <<next_id, req, resp, hist>>
       /\ IF ~In("completed", data) THEN Goto(t, "upd_return") /\ UNCHANGED todos
          ELSE IF SubscriptRaises(data) \/ KeyError(todos, id)
          THEN Done(t, server_error) /\ UNCHANGED todos
          ELSE Goto(t, "upd_return") /\ todos' = AfterCompleted(todos, id, data)

\* update_todo: return jsonify(todos[todo_id]), 200
r_upd_return(t) ==
    /\ threads[t].pc = "upd_return"
    /\ UNCHANGED <<todos, next_id, req, resp, hist>>
    /\ IF KeyError(todos, threads[t].id) THEN Done(t, server_error)
       ELSE Done(t, JsonTodo(200, Get(todos, threads[t].id)))

\* delete_todo: deleted = todos.pop(todo_id); return jsonify(deleted), 200
r_del_pop(t) ==
    /\ threads[t].pc = "del_pop"
    /\ UNCHANGED <<next_id, req, resp, created, held>>
    /\ IF KeyError(todos, threads[t].id)
       THEN Done(t, server_error) /\ UNCHANGED <<todos, deleted>>
       ELSE /\ Done(t, JsonTodo(200, Get(todos, threads[t].id)))
            /\ todos' = Pop(todos, threads[t].id)
            /\ deleted' = deleted \cup {threads[t].id}

NextRace ==
    \/ \E t \in Threads, todo_id \in RaceIds, r \in RaceRequests :
         r_check(t, r[1], todo_id, r[2])
    \/ \E t \in Threads : r_get_read(t)
    \/ \E t \in Threads : r_upd_title(t)
    \/ \E t \in Threads : r_upd_completed(t)
    \/ \E t \in Threads : r_upd_return(t)
    \/ \E t \in Threads : r_del_pop(t)

SpecRace == InitRace /\ [][NextRace]_vars

(***************************************************************************)
(* Properties.                                                             *)
(***************************************************************************)
StoredIds == {todos[i].key : i \in 1..Len(todos)}
Record(d, k) == d[CHOOSE i \in 1..Len(d) : d[i].key = k].val
StoreUnchanged == todos' = todos /\ next_id' = next_id
HasErrorField(r) == r.kind = "error" /\ r.error # ""
Answered(op, st) == req.op = op /\ resp.status = st

\* C1: the ids returned by successful creates strictly increase, and a create
\* never returns an id that any earlier record held, deleted ones included.
C1_IdsIncreaseNeverReused ==
    [][(req'.op = "create" /\ resp'.status = 201)
        => /\ resp'.todo.id \notin held
           /\ \A i \in 1..Len(created) : created[i] < resp'.todo.id
           /\ created' = Append(created, resp'.todo.id)]_vars

\* C1 witness: a second create has answered after the first created record was deleted
C1_Witness ==
    /\ Answered("create", 201)
    /\ Len(created) = 2
    /\ created[1] \in deleted
    /\ created[2] > created[1]

\* a create whose title is missing or empty
TitleMissingOrEmpty(b) ==
    \/ b.kind = "none"
    \/ b.kind = "obj" /\ "title" \notin b.keys
    \/ b.kind = "obj" /\ "title" \in b.keys /\ b.title = JStr("")

\* C2: a create whose title is missing or empty is answered 400 with an error
\* field and leaves the dict and the counter as they were.
C2_MissingOrEmptyTitleRejected ==
    [][(req'.op = "create" /\ TitleMissingOrEmpty(req'.body))
        => resp'.status = 400 /\ HasErrorField(resp') /\ StoreUnchanged]_vars

\* C3: get, update and delete of an id that is no key of the dict answer 404
\* with an error field and leave the dict and the counter as they were.
C3_MissingIdIs404 ==
    [][(req'.op \in {"get", "update", "delete"} /\ req'.id \notin StoredIds)
        => resp'.status = 404 /\ HasErrorField(resp') /\ StoreUnchanged]_vars

\* C3 witness: an update with a well-formed body of an id that was deleted
C3_Witness ==
    /\ Answered("update", 404)
    /\ req.id \in deleted
    /\ req.body.kind = "obj" /\ "title" \in req.body.keys

\* C4: an update answered 200 changes, of the target record, only the title and
\* completed fields present in the body; id and created_at, the other records,
\* the set of keys and the counter stay as they were.
C4_UpdateFrame ==
    [][(req'.op = "update" /\ resp'.status = 200)
        => LET k == req'.id
               b == req'.body
               old == Record(todos, k)
               new == Record(todos', k)
           IN /\ k \in StoredIds
              /\ {todos'[i].key : i \in 1..Len(todos')} = StoredIds
              /\ Len(todos') = Len(todos)
              /\ \A j \in StoredIds \ {k} : Record(todos', j) = Record(todos, j)
              /\ new.id = old.id
              /\ new.created_at = old.created_at
              /\ ("title" \notin b.keys => new.title = old.title)
              /\ ("completed" \notin b.keys => new.completed = old.completed)
              /\ ("title" \in b.keys => new.title = b.title)
              /\ ("completed" \in b.keys => new.completed = b.completed)
              /\ resp'.todo = new
              /\ next_id' = next_id]_vars

\* C4 witness: update(1, {completed: true}) has answered, the title still the seed's
C4_Witness ==
    /\ Answered("update", 200)
    /\ req.id = 1
    /\ req.body.keys = {"completed"} /\ req.body.completed = JTrue
    /\ resp.todo.completed = JTrue
    /\ resp.todo.title = JStr("Learn GitHub Actions")

\* C5: a delete answered 200 returns the record as it was stored, removes that
\* entry and no other and leaves the counter; ever after, the id is no key of the
\* dict, a get of it answers 404 and the list holds no record with that id.
C5_DeleteRemovesForGood ==
    /\ [][(req'.op = "delete" /\ resp'.status = 200)
           => /\ req'.id \in StoredIds
              /\ resp'.todo = Record(todos, req'.id)
              /\ todos' = SelectSeq(todos, LAMBDA e : e.key # req'.id)
              /\ Len(todos') = Len(todos) - 1
              /\ next_id' = next_id]_vars
    /\ [](\A k \in deleted :
            /\ k \notin StoredIds
            /\ (req.op = "get" /\ req.id = k => resp.status = 404)
            /\ (req.op = "list" => \A i \in 1..Len(resp.list) : resp.list[i].id # k))

\* C5 witness: a get of a deleted id has answered 404 after a later create
C5_Witness ==
    /\ Answered("get", 404)
    /\ req.id \in deleted
    /\ \E i \in 1..Len(created) : created[i] > req.id

\* a create whose title is a non-empty text
TitleValid(b) == b.kind = "obj" /\ "title" \in b.keys /\ b.title.kind = "str" /\ b.title.v # ""

\* C6: a create with a valid title answers 201 with a record whose id is the
\* counter before the request, with the given title, completed false and a
\* non-empty created_at; the counter advances by one, and a get of that id right
\* after answers 200 with the same record.
C6_CreateThenGet ==
    [][(req'.op = "create" /\ TitleValid(req'.body))
        => /\ resp'.status = 201 /\ resp'.kind = "todo"
           /\ resp'.todo.id = next_id
           /\ resp'.todo.title = req'.body.title
           /\ resp'.todo.completed = JFalse
           /\ resp'.todo.created_at # ""
           /\ next_id' = next_id + 1
           /\ get_todo_response(todos', next_id) = JsonTodo(200, resp'.todo)]_vars

\* C6 witness: the second create with a valid title has answered
C6_Witness ==
    /\ Answered("create", 201)
    /\ resp.todo.title = JStr("Buy milk")
    /\ resp.todo.id = 4

C8_TitlesNonEmptyText ==
    \A i \in 1..Len(todos) :
        todos[i].val.title.kind = "str" /\ todos[i].val.title.v # ""

\* a body on which create_todo raises
CreateRaises(b) ==
    \/ b.kind = "num" /\ b.n # 0
    \/ b.kind = "list" /\ "title" \in b.keys
\* a body on which update_todo of a stored id raises
UpdateRaises(b) ==
    \/ b.kind \in {"none", "num"}
    \/ b.kind = "list" /\ b.keys \cap {"title", "completed"} # {}
\* the request's handler fails for a reason other than validation or not-found
HandlerRaises(r) ==
    \/ r.op = "create" /\ CreateRaises(r.body)
    \/ r.op = "update" /\ r.id \in StoredIds /\ UpdateRaises(r.body)
\* the request's body does not parse
BodyMalformed(r) ==
    \/ r.op = "create" /\ r.body.kind = "malformed"
    \/ r.op = "update" /\ r.id \in StoredIds /\ r.body.kind = "malformed"

Inserted == {t \in Threads : threads[t].pc \in {"load", "add", "return"}
                             \/ (threads[t].pc = "done" /\ threads[t].resp.status = 201)}
\* the threads whose create has answered 201
Answered201 == {t \in Threads : threads[t].pc = "done" /\ threads[t].resp.status = 201}
AllDone == \A t \in Threads : threads[t].pc = "done"
\* two creates stored their records under the same key
Collision(ts) == \E t, u \in ts : t # u /\ threads[t].key = threads[u].key

\* C10: concurrent creates whose steps interleave can load the same next_id: the
\* dict then holds one record per key stored under, so creates that stored under
\* the same key leave one record, the later overwriting the earlier, and fewer
\* records beyond the seeds exist than creates that answered 201.
C10_ConcurrentCreatesCollide ==
    /\ StoredIds = {1, 2} \cup {threads[t].key : t \in Inserted}
    /\ Len(todos) = 2 + Cardinality({threads[t].key : t \in Inserted})
    /\ \A t \in Inserted :
         \E u \in Inserted : /\ threads[u].key = threads[t].key
                             /\ Record(todos, threads[t].key) = threads[u].todo
    /\ (AllDone => (Collision(Answered201) <=> Len(todos) - 2 < Cardinality(Answered201)))

\* C10 witness: two creates of different titles have answered 201 with the same id,
\* stored under the same key; the dict holds the record of one of them only, and
\* fewer created records than creates answered 201
C10_Witness ==
    /\ AllDone
    /\ \E t, u \in Answered201 :
         /\ t # u
         /\ threads[t].resp.todo.id = threads[u].resp.todo.id
         /\ threads[t].key = threads[u].key
         /\ threads[t].todo # threads[u].todo
         /\ Record(todos, threads[t].key) = threads[u].todo
    /\ Len(todos) - 2 < Cardinality(Answered201)

\* the keys of the dict in its order
KeySeq(d) == [i \in 1..Len(d) |-> d[i].key]

\* C11: the list holds every stored record once, in insertion order: a create
\* puts its key last, an update moves no key, a delete keeps the order of the
\* others; so the listed ids are strictly ascending.
C11_ListInInsertionOrder ==
    /\ [][/\ (req'.op = "create" /\ resp'.status = 201
               => KeySeq(todos') = Append(KeySeq(todos), resp'.todo.id))
          /\ (req'.op = "update" /\ resp'.status = 200
               => KeySeq(todos') = KeySeq(todos))
          /\ (req'.op = "delete" /\ resp'.status = 200
               => KeySeq(todos') = SelectSeq(KeySeq(todos), LAMBDA k : k # req'.id))]_vars
    /\ [](req.op = "list"
           => /\ resp.status = 200
              /\ Len(resp.list) = Cardinality(StoredIds)
              /\ \A i \in 1..Len(resp.list) : resp.list[i] = todos[i].val
              /\ \A k \in StoredIds : \E i \in 1..Len(resp.list) : resp.list[i].id = k
              /\ \A i, j \in 1..Len(resp.list) : i < j => resp.list[i].id < resp.list[j].id)

\* C11 witness: the list has been answered after a seed was deleted, the other
\* seed updated and a record created
C11_Witness ==
    /\ Answered("list", 200)
    /\ 1 \in deleted
    /\ Len(resp.list) = 2
    /\ resp.list[1].id = 2 /\ resp.list[1].completed = JTrue
    /\ resp.list[2].id = 3

ReadOps == {"get", "list", "stats", "health", "index"}

\* C12: the read requests change neither the dict nor the counter; a get answers
\* 200 with the stored record or 404, and the same get repeated on the state it
\* leaves answers the same status and record.
C12_ReadsChangeNothing ==
    [][req'.op \in ReadOps
        => /\ StoreUnchanged
           /\ (req'.op = "get" /\ req'.id \in StoredIds
                => resp' = JsonTodo(200, Record(todos, req'.id)))
           /\ (req'.op = "get" /\ req'.id \notin StoredIds => resp'.status = 404)
           /\ (req'.op = "get" => get_todo_response(todos', req'.id) = resp')]_vars

\* C12 witness: a get of a created record has answered 200 with it
C12_Witness ==
    /\ Answered("get", 200)
    /\ req.id = 3
    /\ resp.todo = Record(todos, 3)

\* C13: under sequential requests every key k maps to a record whose id is k,
\* every key is a positive integer below the counter, and the counter is at
\* least 3 and never decreases.
C13_KeysMatchIdsBelowCounter ==
    /\ [](/\ \A i \in 1..Len(todos) :
               /\ todos[i].val.id = todos[i].key
               /\ todos[i].key \in Nat
               /\ 0 < todos[i].key
               /\ todos[i].key < next_id
          /\ next_id >= 3)
    /\ [][next_id' >= next_id]_vars

\* C13 witness: the counter has advanced twice and a created record is stored
\* beside one deleted
C13_Witness ==
    /\ next_id = 5
    /\ 4 \in StoredIds
    /\ 3 \in deleted
    /\ Record(todos, 4).id = 4

\* the threads whose delete of id was answered 200
DeletedBy(id) ==
    {t \in Threads : /\ threads[t].pc = "done" /\ threads[t].op = "delete"
                     /\ threads[t].id = id /\ threads[t].resp.status = 200}

\* C14: with get, update and delete requests on the same id interleaved, every
\* request ends in 200 or 404, never in a fault, and at most one delete
\* returns the record as deleted.
C14_RacesEndIn200Or404 ==
    /\ \A t \in Threads : threads[t].pc = "done" => threads[t].resp.status \in {200, 404}
    /\ \A id \in RaceIds : Cardinality(DeletedBy(id)) <= 1

====
